---------------------------- MODULE Spec2Model ----------------------------
(***************************************************************************)
(* Answer-verification engine of the math practice app (src/src/main.jsx): *)
(* normalizeMathInput, the fraction utilities, tokenize, parseExpr,        *)
(* evalRational, tryEvalAlgebraic, tryEvalNumeric, nearlyEqual and         *)
(* checkAnswer.                                                            *)
(*                                                                         *)
(* A JavaScript string is a sequence of one-character strings.  A          *)
(* character outside ASCII is written by its code point, "U+00BD".         *)
(* A BigInt is a TLA+ integer (the inputs are bounded so that no value     *)
(* leaves TLC's integer range).                                            *)
(*                                                                         *)
(* Spec is the practice page: a question on screen, the answer typed for   *)
(* it and the Check button.  SpecFrac applies one operation of the engine  *)
(* to one input.  SpecFracLoop runs the loop of normalizeMathInput that    *)
(* rewrites the fraction macros pass by pass.  SpecLoad is the loading of  *)
(* the math-input widget: ensureMathlive and the effects that call it.     *)
(* The page's Prev and Next buttons only change which question is on       *)
(* screen; a behaviour keeps the question it starts with.                  *)
(***************************************************************************)
EXTENDS Integers, Sequences, FiniteSets, TLC

VARIABLES
  q,              \* the question on screen: [type, answer]
  currentAnswer,  \* answers[q.id] ?? '' : the raw text typed for q
  call,           \* what the last checkAnswer() did, "none" before any call
  fop,            \* one operation applied on its own:
                  \* [op, a, b, k, str, done, r, out, tokens]
  loader          \* the loading of the math-input widget: mathliveLoaded, the
                  \* page's useMathField and loadingMathfield, the calls of
                  \* ensureMathlive that wait for their import

vars == <<q, currentAnswer, call, fop, loader>>

(***************************************************************************)
(* Characters and character classes                                        *)
(***************************************************************************)
BS == "\\"

Digits == {"0", "1", "2", "3", "4", "5", "6", "7", "8", "9"}

LowerCase == {"a", "b", "c", "d", "e", "f", "g", "h", "i", "j", "k", "l", "m",
              "n", "o", "p", "q", "r", "s", "t", "u", "v", "w", "x", "y", "z"}

UpperCase == {"A", "B", "C", "D", "E", "F", "G", "H", "I", "J", "K", "L", "M",
              "N", "O", "P", "Q", "R", "S", "T", "U", "V", "W", "X", "Y", "Z"}

Letters == LowerCase \cup UpperCase

\* \s of a JavaScript regular expression, and what String.prototype.trim strips
WhiteSpace == {" ", "\t", "\n", "U+00A0", "U+FEFF"}

\* what '.' of a regular expression does not match
LineTerminators == {"\n"}

\* [\u200B-\u200D\uFEFF\u00A0\u2060\u2061\u2062\u2063\u2064]
Invisible == {"U+200B", "U+200C", "U+200D", "U+FEFF", "U+00A0",
              "U+2060", "U+2061", "U+2062", "U+2063", "U+2064"}

\* the keys of the object 'vulgar', each with its numerator and denominator
VulgarGlyphs ==
  [g \in {"U+00BD", "U+00BC", "U+00BE", "U+2153", "U+2154", "U+2155", "U+2156",
          "U+2157", "U+2158", "U+2159", "U+215A", "U+215B", "U+215C", "U+215D",
          "U+215E"} |->
     CASE g = "U+00BD" -> <<"1", "2">>  [] g = "U+00BC" -> <<"1", "4">>
       [] g = "U+00BE" -> <<"3", "4">>  [] g = "U+2153" -> <<"1", "3">>
       [] g = "U+2154" -> <<"2", "3">>  [] g = "U+2155" -> <<"1", "5">>
       [] g = "U+2156" -> <<"2", "5">>  [] g = "U+2157" -> <<"3", "5">>
       [] g = "U+2158" -> <<"4", "5">>  [] g = "U+2159" -> <<"1", "6">>
       [] g = "U+215A" -> <<"5", "6">>  [] g = "U+215B" -> <<"1", "8">>
       [] g = "U+215C" -> <<"3", "8">>  [] g = "U+215D" -> <<"5", "8">>
       [] g = "U+215E" -> <<"7", "8">>]

(***************************************************************************)
(* Strings                                                                 *)
(***************************************************************************)
At(s, i) == IF i >= 1 /\ i <= Len(s) THEN s[i] ELSE ""

HasAt(s, i, p) == i >= 1 /\ i + Len(p) - 1 <= Len(s) /\ SubSeq(s, i, i + Len(p) - 1) = p

\* the first index from i on whose character is not in S (Len(s) + 1 if none)
RECURSIVE SkipIn(_, _, _)
SkipIn(s, i, S) == IF i <= Len(s) /\ s[i] \in S THEN SkipIn(s, i + 1, S) ELSE i

\* the first index from i on whose character is in S (Len(s) + 1 if none)
RECURSIVE SkipNotIn(_, _, _)
SkipNotIn(s, i, S) == IF i <= Len(s) /\ s[i] \notin S THEN SkipNotIn(s, i + 1, S) ELSE i

RECURSIVE SkipBackIn(_, _, _)
SkipBackIn(s, i, S) == IF i >= 1 /\ s[i] \in S THEN SkipBackIn(s, i - 1, S) ELSE i

Includes(s, c) == \E i \in 1..Len(s) : s[i] = c

\* String.prototype.trim
Trim(s) ==
  LET a == SkipIn(s, 1, WhiteSpace)
      b == SkipBackIn(s, Len(s), WhiteSpace)
  IN IF a > b THEN <<>> ELSE SubSeq(s, a, b)

\* A regular expression at one position: the length it matches there (0: no
\* match) and what String.prototype.replace puts in place of the match.
NoMatch == [len |-> 0, repl |-> <<>>]

Match(n, r) == [len |-> n, repl |-> r]

\* s.replace(/re/g, ...): m[i] is the match of re at position i.  The scan goes
\* left to right and resumes after each match.
RECURSIVE ReplaceFrom(_, _, _)
ReplaceFrom(s, i, m) ==
  IF i > Len(s) THEN <<>>
  ELSE IF m[i].len > 0 THEN m[i].repl \o ReplaceFrom(s, i + m[i].len, m)
  ELSE <<s[i]>> \o ReplaceFrom(s, i + 1, m)

ReplaceAll(s, m) == ReplaceFrom(s, 1, m)

\* one character replaced by a string: s.replace(/[...]/g, x)
RECURSIVE MapChars(_, _)
MapChars(s, f) == IF s = <<>> THEN <<>> ELSE f[Head(s)] \o MapChars(Tail(s), f)

CharMap(s, S, r) == MapChars(s, [c \in {s[i] : i \in 1..Len(s)} |-> IF c \in S THEN r ELSE <<c>>])

(***************************************************************************)
(* normalizeMathInput, one definition per replace() of the source          *)
(***************************************************************************)
\* s.replace(/[\u200B-\u200D\uFEFF\u00A0\u2060\u2061\u2062\u2063\u2064]/g, '')
stripInvisible(s) == SelectSeq(s, LAMBDA c : c \notin Invisible)

\* s.normalize('NFKC') on the characters of the model: a vulgar-fraction glyph
\* decomposes to numerator, FRACTION SLASH (U+2044), denominator; superscript
\* two and fullwidth one to their digits; every other character of the model
\* is its own NFKC form.
nfkcChar(c) ==
  IF c \in DOMAIN VulgarGlyphs THEN <<VulgarGlyphs[c][1], "U+2044", VulgarGlyphs[c][2]>>
  ELSE IF c = "U+00B2" THEN <<"2">>
  ELSE IF c = "U+FF11" THEN <<"1">>
  ELSE <<c>>

NFKC(s) == MapChars(s, [c \in {s[i] : i \in 1..Len(s)} |-> nfkcChar(c)])

\* .replace(/[\u2212\u2013\u2014]/g, '-').replace(/[U+2215 U+2044]/g, '/')
\* .replace(/U+00F7/g, '/').replace(/U+00D7|U+00B7/g, '*')
punctuation(s) ==
  CharMap(CharMap(CharMap(CharMap(s, {"U+2212", "U+2013", "U+2014"}, <<"-">>),
                          {"U+2215", "U+2044"}, <<"/">>),
                  {"U+00F7"}, <<"/">>),
          {"U+00D7", "U+00B7"}, <<"*">>)

\* /\\pi/
RxPi(s, i) == IF HasAt(s, i, <<BS, "p", "i">>) THEN Match(3, <<"p", "i">>) ELSE NoMatch

\* s.replace(/U+03C0/g, 'pi').replace(/\\pi/g, 'pi')
backslashPi(s) == ReplaceAll(s, [i \in 1..Len(s) |-> RxPi(s, i)])

identifiers(s) == backslashPi(CharMap(s, {"U+03C0"}, <<"p", "i">>))

\* /(\d),/ with '$1.': the lookahead left out
RxDecimalCommaAfterDigit(s, i) ==
  IF At(s, i) \in Digits /\ At(s, i + 1) = "," THEN Match(2, <<s[i], ".">>) ELSE NoMatch

\* /(\d),(?=\d)/ with '$1.': the match starts at the digit before the comma
RxDecimalComma(s, i) ==
  IF At(s, i) \in Digits /\ At(s, i + 1) = "," /\ At(s, i + 2) \in Digits
  THEN Match(2, <<s[i], ".">>) ELSE NoMatch

decimalComma(s) == ReplaceAll(s, [i \in 1..Len(s) |-> RxDecimalComma(s, i)])

\* name\{[^}]*\} at position j: the index of the closing brace, 0 if none
BracedArg(s, j, name) ==
  LET a == j + Len(name)
      k == SkipNotIn(s, a + 1, {"}"})
  IN IF HasAt(s, j, name) /\ At(s, a) = "{" /\ k <= Len(s) THEN k ELSE 0

\* /\\(,|;|:|!|quad|qquad|hspace\{[^}]*\}|vspace\{[^}]*\}|phantom\{[^}]*\}|thinspace|enspace)/
RxSpacing(s, i) ==
  LET j == i + 1
      hs == BracedArg(s, j, <<"h", "s", "p", "a", "c", "e">>)
      vs == BracedArg(s, j, <<"v", "s", "p", "a", "c", "e">>)
      ph == BracedArg(s, j, <<"p", "h", "a", "n", "t", "o", "m">>)
  IN IF At(s, i) # BS THEN NoMatch
     ELSE IF At(s, j) \in {",", ";", ":", "!"} THEN Match(2, <<>>)
     ELSE IF HasAt(s, j, <<"q", "u", "a", "d">>) THEN Match(5, <<>>)
     ELSE IF HasAt(s, j, <<"q", "q", "u", "a", "d">>) THEN Match(6, <<>>)
     ELSE IF hs > 0 THEN Match(hs - i + 1, <<>>)
     ELSE IF vs > 0 THEN Match(vs - i + 1, <<>>)
     ELSE IF ph > 0 THEN Match(ph - i + 1, <<>>)
     ELSE IF HasAt(s, j, <<"t", "h", "i", "n", "s", "p", "a", "c", "e">>) THEN Match(10, <<>>)
     ELSE IF HasAt(s, j, <<"e", "n", "s", "p", "a", "c", "e">>) THEN Match(8, <<>>)
     ELSE NoMatch

\* /\\left\s*/ and /\\right\s*/
RxWord(s, i, word) ==
  IF HasAt(s, i, <<BS>> \o word)
  THEN Match(SkipIn(s, i + 1 + Len(word), WhiteSpace) - i, <<>>) ELSE NoMatch

\* /\\operatorname\s*\{([^}]*)\}/ with '$1'
RxOperatorname(s, i) ==
  LET word == <<BS, "o", "p", "e", "r", "a", "t", "o", "r", "n", "a", "m", "e">>
      j == SkipIn(s, i + Len(word), WhiteSpace)
      k == SkipNotIn(s, j + 1, {"}"})
  IN IF HasAt(s, i, word) /\ At(s, j) = "{" /\ k <= Len(s)
     THEN Match(k - i + 1, SubSeq(s, j + 1, k - 1)) ELSE NoMatch

spacing(s) == ReplaceAll(s, [i \in 1..Len(s) |-> RxSpacing(s, i)])

word(s, w) == ReplaceAll(s, [i \in 1..Len(s) |-> RxWord(s, i, w)])

operatorname(s) == ReplaceAll(s, [i \in 1..Len(s) |-> RxOperatorname(s, i)])

wrappers(s) ==
  operatorname(word(word(spacing(s), <<"l", "e", "f", "t">>), <<"r", "i", "g", "h", "t">>))

\* s.replace(/[the fifteen glyphs]/g, m => vulgar[m])
vulgar(s) ==
  MapChars(s, [c \in {s[i] : i \in 1..Len(s)} |->
                 IF c \in DOMAIN VulgarGlyphs
                 THEN <<"(", VulgarGlyphs[c][1], "/", VulgarGlyphs[c][2], ")">>
                 ELSE <<c>>])

\* s.replace(/^\$(.*)\$$/, '$1')
stripDollar(s) ==
  IF Len(s) >= 2 /\ s[1] = "$" /\ s[Len(s)] = "$"
     /\ \A i \in 2..(Len(s) - 1) : s[i] \notin LineTerminators
  THEN SubSeq(s, 2, Len(s) - 1) ELSE s

\* s.replace(/^\\\((.*)\\\)$/, '$1')
stripParenWrapper(s) ==
  IF Len(s) >= 4 /\ HasAt(s, 1, <<BS, "(">>) /\ HasAt(s, Len(s) - 1, <<BS, ")">>)
     /\ \A i \in 3..(Len(s) - 2) : s[i] \notin LineTerminators
  THEN SubSeq(s, 3, Len(s) - 2) ELSE s

\* the pattern with the replacement '\frac($1)/($2)', which keeps the macro
RxFracKeepsMacro(s, i) ==
  LET j == IF At(s, i + 1) \in {"d", "t"} THEN i + 2 ELSE i + 1
      a == j + 5
      b == SkipNotIn(s, a, {"}"})
      c == b + 2
      e == SkipNotIn(s, c, {"}"})
  IN IF At(s, i) = BS /\ HasAt(s, j, <<"f", "r", "a", "c", "{">>)
        /\ b > a /\ HasAt(s, b, <<"}", "{">>) /\ e > c /\ e <= Len(s)
     THEN Match(e - i + 1,
                <<BS, "f", "r", "a", "c", "(">> \o SubSeq(s, a, b - 1) \o <<")", "/", "(">>
                        \o SubSeq(s, c, e - 1) \o <<")">>)
     ELSE NoMatch

\* /\\(?:d|t)?frac{([^}]+)}{([^}]+)}/ with '($1)/($2)'
RxFrac(s, i) ==
  LET j == IF At(s, i + 1) \in {"d", "t"} THEN i + 2 ELSE i + 1
      a == j + 5                       \* first character of group 1
      b == SkipNotIn(s, a, {"}"})      \* the brace closing group 1
      c == b + 2                       \* first character of group 2
      e == SkipNotIn(s, c, {"}"})      \* the brace closing group 2
  IN IF At(s, i) = BS /\ HasAt(s, j, <<"f", "r", "a", "c", "{">>)
        /\ b > a /\ HasAt(s, b, <<"}", "{">>) /\ e > c /\ e <= Len(s)
     THEN Match(e - i + 1,
                <<"(">> \o SubSeq(s, a, b - 1) \o <<")", "/", "(">>
                        \o SubSeq(s, c, e - 1) \o <<")">>)
     ELSE NoMatch

\* while (/frac/.test(s)) s = s.replace(/frac/g, '($1)/($2)')
RECURSIVE fracLoop(_)
fracLoop(s) ==
  IF \E i \in 1..Len(s) : RxFrac(s, i).len > 0
  THEN fracLoop(ReplaceAll(s, [i \in 1..Len(s) |-> RxFrac(s, i)]))
  ELSE s

\* /\\sqrt{([^}]+)}/ with 'sqrt($1)'
RxSqrt(s, i) ==
  LET a == i + 6
      b == SkipNotIn(s, a, {"}"})
  IN IF HasAt(s, i, <<BS, "s", "q", "r", "t", "{">>) /\ b > a /\ b <= Len(s)
     THEN Match(b - i + 1, <<"s", "q", "r", "t", "(">> \o SubSeq(s, a, b - 1) \o <<")">>)
     ELSE NoMatch

\* /\^\{([^}]+)}/ with '^($1)'
RxBraceExponent(s, i) ==
  LET a == i + 2
      b == SkipNotIn(s, a, {"}"})
  IN IF HasAt(s, i, <<"^", "{">>) /\ b > a /\ b <= Len(s)
     THEN Match(b - i + 1, <<"^", "(">> \o SubSeq(s, a, b - 1) \o <<")">>)
     ELSE NoMatch

\* /\{\s*([+-]?\d+)\s*\}/ with '$1'
RxBracedInteger(s, i) ==
  LET a == SkipIn(s, i + 1, WhiteSpace)
      b == IF At(s, a) \in {"+", "-"} THEN a + 1 ELSE a
      c == SkipIn(s, b, Digits)
      e == SkipIn(s, c, WhiteSpace)
  IN IF At(s, i) = "{" /\ c > b /\ At(s, e) = "}"
     THEN Match(e - i + 1, SubSeq(s, a, c - 1)) ELSE NoMatch

\* /\s+/ with ' '
RxSpaces(s, i) ==
  IF At(s, i) \in WhiteSpace THEN Match(SkipIn(s, i, WhiteSpace) - i, <<" ">>) ELSE NoMatch

collapseSpaces(s) == Trim(ReplaceAll(s, [i \in 1..Len(s) |-> RxSpaces(s, i)]))

sqrtBraces(s) == ReplaceAll(s, [i \in 1..Len(s) |-> RxSqrt(s, i)])

braceExponent(s) == ReplaceAll(s, [i \in 1..Len(s) |-> RxBraceExponent(s, i)])

bracedInteger(s) == ReplaceAll(s, [i \in 1..Len(s) |-> RxBracedInteger(s, i)])

latexToAscii(s) == bracedInteger(braceExponent(sqrtBraces(fracLoop(s))))

\* the statements of the function, first to last, innermost to outermost
normalizeMathInput(raw) ==
  collapseSpaces(latexToAscii(stripParenWrapper(stripDollar(vulgar(wrappers(
    decimalComma(identifiers(punctuation(NFKC(stripInvisible(Trim(raw))))))))))))

(***************************************************************************)
(* Fraction (BigInt) utilities                                             *)
(***************************************************************************)
\* What a call returns or throws: ok with a fraction, or the message of the
\* Error thrown ("SyntaxError" for the SyntaxError BigInt() throws).
Frac(n, d) == [n |-> n, d |-> d]

Ok(f) == [ok |-> TRUE, err |-> "", frac |-> f]

Throw(e) == [ok |-> FALSE, err |-> e, frac |-> Frac(0, 0)]

DigitSeq == <<"0", "1", "2", "3", "4", "5", "6", "7", "8", "9">>

DigitVal(c) == (CHOOSE i \in 1..10 : DigitSeq[i] = c) - 1

RECURSIVE ParseNat(_)
ParseNat(s) ==
  IF s = <<>> THEN 0 ELSE ParseNat(SubSeq(s, 1, Len(s) - 1)) * 10 + DigitVal(s[Len(s)])

AllDigits(s) == \A i \in 1..Len(s) : s[i] \in Digits

\* BI = (x) => BigInt(x) on a string: white space is trimmed, the empty string
\* is 0n, an optional sign and decimal digits give the integer, anything else
\* throws a SyntaxError.  [ok, v]
BI(x) ==
  LET t == Trim(x)
      body == IF At(t, 1) \in {"+", "-"} THEN Tail(t) ELSE t
  IN IF t = <<>> THEN [ok |-> TRUE, v |-> 0]
     ELSE IF body # <<>> /\ AllDigits(body)
     THEN [ok |-> TRUE, v |-> IF t[1] = "-" THEN 0 - ParseNat(body) ELSE ParseNat(body)]
     ELSE [ok |-> FALSE, v |-> 0]

abs(a) == IF a < 0 THEN 0 - a ELSE a

RECURSIVE gcdLoop(_, _)
gcdLoop(a, b) == IF b # 0 THEN gcdLoop(b, a % b) ELSE a

gcd(a, b) == gcdLoop(abs(a), abs(b))

\* BigInt division truncates toward zero
quot(n, g) == IF n < 0 THEN 0 - ((0 - n) \div g) ELSE n \div g

\* norm without its first statement, if(d<0n){ n=-n; d=-d; }
normUnsigned(n, d) ==
  LET g0 == gcd(n, d)
      g == IF g0 = 0 THEN 1 ELSE g0
  IN Frac(quot(n, g), quot(d, g))

norm(n, d) ==
  LET n1 == IF d < 0 THEN 0 - n ELSE n
      d1 == IF d < 0 THEN 0 - d ELSE d
      g0 == gcd(n1, d1)
      g == IF g0 = 0 THEN 1 ELSE g0
  IN Frac(quot(n1, g), quot(d1, g))

addF(a, b) == norm(a.n * b.d + b.n * a.d, a.d * b.d)

subF(a, b) == norm(a.n * b.d - b.n * a.d, a.d * b.d)

mulF(a, b) == norm(a.n * b.n, a.d * b.d)

divF(a, b) == IF b.n = 0 THEN Throw("div0") ELSE Ok(norm(a.n * b.d, a.d * b.n))

\* while(k>0){ if(k&1) res=mulF(res,base); base=mulF(base,base); k>>=1; }
RECURSIVE powLoop(_, _, _)
powLoop(base, res, k) ==
  IF k > 0
  THEN powLoop(mulF(base, base), IF k % 2 = 1 THEN mulF(res, base) ELSE res, k \div 2)
  ELSE res

\* a power taken for a product: a * k
powFAsProduct(a, k) == mulF(a, Frac(k, 1))

\* k is an integer here: evalRational passes Number() of a run of digits
powF(a, k) ==
  IF k = 0 THEN Frac(1, 1)
  ELSE IF k < 0 THEN LET p == powLoop(a, Frac(1, 1), 0 - k) IN Frac(p.d, p.n)
  ELSE powLoop(a, Frac(1, 1), k)

eqF(a, b) == a.n = b.n /\ a.d = b.d

fromInt(i) == LET b == BI(i) IN IF b.ok THEN Ok(Frac(b.v, 1)) ELSE Throw("SyntaxError")

RECURSIVE Pow10(_)
Pow10(k) == IF k = 0 THEN 1 ELSE 10 * Pow10(k - 1)

\* const [i,dec]=str.split('.'): the text before the first '.', and the text
\* between the first '.' and the second (or the end)
fromDecimalString(str) ==
  IF ~Includes(str, ".") THEN fromInt(str)
  ELSE LET p == SkipNotIn(str, 1, {"."})
           e == SkipNotIn(str, p + 1, {"."})
           i == SubSeq(str, 1, p - 1)
           dec == SubSeq(str, p + 1, e - 1)
           scale == Pow10(Len(dec))
           bi == BI(IF i = <<>> THEN <<"0">> ELSE i)
           bdec == BI(dec)
       IN IF bi.ok /\ bdec.ok THEN Ok(norm(bi.v * scale + bdec.v, scale))
          ELSE Throw("SyntaxError")

(***************************************************************************)
(* Lexer                                                                   *)
(***************************************************************************)
Tok(t, v) == [t |-> t, v |-> v]

\* [ok, err, c, tokens]: the tokens, or the message 'bad char ' + c in two parts
RECURSIVE tokenizeFrom(_, _, _)
tokenizeFrom(s, i, tokens) ==
  IF i > Len(s)
  THEN [ok |-> TRUE, err |-> "", c |-> "", tokens |-> Append(tokens, Tok("eof", <<>>))]
  ELSE LET c == s[i] IN
    IF c = " " THEN tokenizeFrom(s, i + 1, tokens)
    ELSE IF c \in {"+", "-", "*", "/", "^", "(", ")"}
    THEN tokenizeFrom(s, i + 1, Append(tokens, Tok(c, <<>>)))
    ELSE IF c \in Digits \/ c = "."
    THEN LET j == SkipIn(s, i, Digits \cup {"."})
         IN tokenizeFrom(s, j, Append(tokens, Tok("num", SubSeq(s, i, j - 1))))
    ELSE IF c \in Letters
    THEN LET j == SkipIn(s, i, Letters)
         IN tokenizeFrom(s, j, Append(tokens, Tok("id", SubSeq(s, i, j - 1))))
    ELSE IF c \in {"[", "]", "{", "}"} THEN tokenizeFrom(s, i + 1, tokens)
    ELSE [ok |-> FALSE, err |-> "bad char", c |-> c, tokens |-> <<>>]

tokenize(s) == tokenizeFrom(s, 1, <<>>)

(***************************************************************************)
(* Pratt parser for + - * / ^ .  parse(fn, ...) is the source's function   *)
(* fn called with the cursor at token i ("parsePowLoop" and the other      *)
(* loops: the while of that function, 'left' being its variable) and       *)
(* returns [ok, err, ast, i], i being the index of the next token.         *)
(* Reading past the last token (peek() or next() is undefined) is the      *)
(* TypeError of its '.t'.                                                  *)
(***************************************************************************)
Parsed(ast, i) == [ok |-> TRUE, err |-> "", ast |-> ast, i |-> i]

ParseError(e) == [ok |-> FALSE, err |-> e, ast |-> <<>>, i |-> 0]

RECURSIVE parse(_, _, _, _)
parse(fn, tokens, left, i) ==
  IF i > Len(tokens) THEN ParseError("TypeError")
  ELSE IF fn = "parsePrimary"
  THEN LET tok == tokens[i] IN
    IF tok.t = "num" THEN Parsed([k |-> "num", v |-> tok.v], i + 1)
    ELSE IF tok.t = "id" THEN Parsed([k |-> "id", v |-> tok.v], i + 1)
    ELSE IF tok.t = "-"
    THEN LET x == parse("parsePrimary", tokens, left, i + 1)
         IN IF x.ok THEN Parsed([k |-> "neg", x |-> x.ast], x.i) ELSE x
    ELSE IF tok.t = "("
    THEN LET e == parse("parseAddSub", tokens, left, i + 1)
         IN IF ~e.ok THEN e
            ELSE IF e.i > Len(tokens) THEN ParseError("TypeError")
            ELSE IF tokens[e.i].t # ")" THEN ParseError(")")
            ELSE Parsed(e.ast, e.i + 1)
    ELSE ParseError("primary")
  ELSE IF fn = "parsePow"
  THEN LET p == parse("parsePrimary", tokens, left, i)
       IN IF p.ok THEN parse("parsePowLoop", tokens, p.ast, p.i) ELSE p
  ELSE IF fn = "parsePowLoop"
  THEN IF tokens[i].t = "^"
       THEN LET right == parse("parsePrimary", tokens, left, i + 1)
            IN IF right.ok
               THEN parse("parsePowLoop", tokens, [k |-> "pow", a |-> left, b |-> right.ast],
                          right.i)
               ELSE right
       ELSE Parsed(left, i)
  ELSE IF fn = "parseMulDiv"
  THEN LET p == parse("parsePow", tokens, left, i)
       IN IF p.ok THEN parse("parseMulDivLoop", tokens, p.ast, p.i) ELSE p
  ELSE IF fn = "parseMulDivLoop"
  THEN IF tokens[i].t \in {"*", "/"}
       THEN LET r == parse("parsePow", tokens, left, i + 1)
            IN IF r.ok
               THEN parse("parseMulDivLoop", tokens, [k |-> tokens[i].t, a |-> left, b |-> r.ast],
                          r.i)
               ELSE r
       ELSE Parsed(left, i)
  ELSE IF fn = "parseAddSub"
  THEN LET p == parse("parseMulDiv", tokens, left, i)
       IN IF p.ok THEN parse("parseAddSubLoop", tokens, p.ast, p.i) ELSE p
  ELSE IF tokens[i].t \in {"+", "-"}
       THEN LET r == parse("parseMulDiv", tokens, left, i + 1)
            IN IF r.ok
               THEN parse("parseAddSubLoop", tokens, [k |-> tokens[i].t, a |-> left, b |-> r.ast],
                          r.i)
               ELSE r
       ELSE Parsed(left, i)

parseExpr(tokens) ==
  LET ast == parse("parseAddSub", tokens, <<>>, 1)
  IN IF ~ast.ok THEN ast
     ELSE IF tokens[ast.i].t # "eof" THEN ParseError("trailing")
     ELSE ast

(***************************************************************************)
(* evalRational                                                            *)
(***************************************************************************)
\* case 'neg': return {n:-t.n, d:t.d}
negF(t) == Frac(0 - t.n, t.d)

RECURSIVE evalNode(_)
evalNode(n) ==
  IF n.k = "num"
  THEN IF Includes(n.v, ".") THEN fromDecimalString(n.v) ELSE fromInt(n.v)
  ELSE IF n.k = "id" THEN Throw("symbol")
  ELSE IF n.k = "neg"
  THEN LET t == evalNode(n.x) IN IF t.ok THEN Ok(negF(t.frac)) ELSE t
  ELSE IF n.k = "pow"
  THEN LET a == evalNode(n.a)
       IN IF ~a.ok THEN a
          ELSE IF n.b.k # "num" THEN Throw("exp")
          ELSE IF Includes(n.b.v, ".") THEN Throw("exp")
          ELSE Ok(powF(a.frac, ParseNat(n.b.v)))
  ELSE IF n.k \in {"+", "-", "*", "/"}
  THEN LET a == evalNode(n.a)
           b == evalNode(n.b)
       IN IF ~a.ok THEN a
          ELSE IF ~b.ok THEN b
          ELSE IF n.k = "+" THEN Ok(addF(a.frac, b.frac))
          ELSE IF n.k = "-" THEN Ok(subF(a.frac, b.frac))
          ELSE IF n.k = "*" THEN Ok(mulF(a.frac, b.frac))
          ELSE divF(a.frac, b.frac)
  ELSE Throw("node")

evalRational(ast) == evalNode(ast)

(***************************************************************************)
(* tryEvalAlgebraic                                                        *)
(***************************************************************************)
\* one side of the pattern below from index i, \(?\s*([+-]?\d+)\s*\)? :
\* [ok, g, i], g the capture and i the index after the side
SimpleSide(s, i) ==
  LET a == SkipIn(s, IF At(s, i) = "(" THEN i + 1 ELSE i, WhiteSpace)
      b == IF At(s, a) \in {"+", "-"} THEN a + 1 ELSE a
      c == SkipIn(s, b, Digits)
      e == SkipIn(s, c, WhiteSpace)
  IN [ok |-> c > b, g |-> SubSeq(s, a, c - 1), i |-> IF At(s, e) = ")" THEN e + 1 ELSE e]

\* s.match(/^\(?\s*([+-]?\d+)\s*\)?\s*\/\s*\(?\s*([+-]?\d+)\s*\)?$/):
\* [matched, g1, g2], g1 and g2 the two captured integers
simple(s) ==
  LET l == SimpleSide(s, 1)
      sl == SkipIn(s, l.i, WhiteSpace)
      r == SimpleSide(s, SkipIn(s, sl + 1, WhiteSpace))
  IN IF l.ok /\ At(s, sl) = "/" /\ r.ok /\ r.i = Len(s) + 1
     THEN [matched |-> TRUE, g1 |-> l.g, g2 |-> r.g]
     ELSE [matched |-> FALSE, g1 |-> <<>>, g2 |-> <<>>]

\* if(simple){ return { ok:true, frac: norm(BI(simple[1]), BI(simple[2])) }; }
fastPath(n, d) == Ok(norm(n, d))

\* tryEvalAlgebraic returns {ok:true, frac} or, from its catch, {ok:false};
\* err keeps the message of the Error that the catch swallowed.
\* const frac = evalRational(ast)
evalParsed(ast) == IF ~ast.ok THEN Throw(ast.err) ELSE evalRational(ast.ast)

\* const tokens = tokenize(s); const ast = parseExpr(tokens)
evalTokens(tokens) == IF ~tokens.ok THEN Throw(tokens.err) ELSE evalParsed(parseExpr(tokens.tokens))

\* the body of the try once s is normalized: m is s.match(...)
evalNormalized(s, m) ==
  IF m.matched THEN fastPath(BI(m.g1).v, BI(m.g2).v) ELSE evalTokens(tokenize(s))

evalSimple(s) == evalNormalized(s, simple(s))

tryEvalAlgebraic(expr) == evalSimple(normalizeMathInput(expr))

(***************************************************************************)
(* JavaScript numbers.  A double is modelled by its exact value: NaN, an   *)
(* infinity, or a signed fraction n/d of natural numbers of any size, so   *)
(* + - * / do not round (a double rounds at 2^-53 relative; the            *)
(* tolerances compared against are 1e-9 and more).  Math.sqrt is cut to    *)
(* SqrtDigits decimal places.  A natural number is the sequence of its     *)
(* base-10000 digits, least significant first, <<>> being 0.               *)
(***************************************************************************)
SqrtDigits == 12

RECURSIVE BnTrim(_)
BnTrim(a) == IF a # <<>> /\ a[Len(a)] = 0 THEN BnTrim(SubSeq(a, 1, Len(a) - 1)) ELSE a

RECURSIVE BnFromInt(_)
BnFromInt(n) == IF n = 0 THEN <<>> ELSE <<n % 10000>> \o BnFromInt(n \div 10000)

\* from decimal digit characters, most significant first
RECURSIVE BnFromDigits(_)
BnFromDigits(s) ==
  IF Len(s) <= 4 THEN BnFromInt(ParseNat(s))
  ELSE BnTrim(<<ParseNat(SubSeq(s, Len(s) - 3, Len(s)))>>
              \o BnFromDigits(SubSeq(s, 1, Len(s) - 4)))

RECURSIVE BnAddC(_, _, _)
BnAddC(a, b, c) ==
  IF a = <<>> /\ b = <<>> THEN (IF c = 0 THEN <<>> ELSE <<c>>)
  ELSE LET x == (IF a = <<>> THEN 0 ELSE a[1]) + (IF b = <<>> THEN 0 ELSE b[1]) + c
       IN <<x % 10000>> \o BnAddC(IF a = <<>> THEN a ELSE Tail(a),
                                  IF b = <<>> THEN b ELSE Tail(b), x \div 10000)

BnAdd(a, b) == BnAddC(a, b, 0)

\* a - b for a >= b
RECURSIVE BnSubC(_, _, _)
BnSubC(a, b, c) ==
  IF a = <<>> THEN <<>>
  ELSE LET x == a[1] - (IF b = <<>> THEN 0 ELSE b[1]) - c
       IN <<(x + 10000) % 10000>> \o BnSubC(Tail(a), IF b = <<>> THEN b ELSE Tail(b),
                                            IF x < 0 THEN 1 ELSE 0)

BnSub(a, b) == BnTrim(BnSubC(a, b, 0))

\* -1, 0, 1
RECURSIVE BnCmpFrom(_, _, _)
BnCmpFrom(a, b, i) ==
  IF i = 0 THEN 0
  ELSE IF a[i] < b[i] THEN 0 - 1
  ELSE IF a[i] > b[i] THEN 1
  ELSE BnCmpFrom(a, b, i - 1)

BnCmp(a, b) ==
  IF Len(a) < Len(b) THEN 0 - 1
  ELSE IF Len(a) > Len(b) THEN 1
  ELSE BnCmpFrom(a, b, Len(a))

\* a * m for 0 <= m < 10000
RECURSIVE BnMulSmallC(_, _, _)
BnMulSmallC(a, m, c) ==
  IF a = <<>> THEN (IF c = 0 THEN <<>> ELSE <<c>>)
  ELSE LET x == a[1] * m + c IN <<x % 10000>> \o BnMulSmallC(Tail(a), m, x \div 10000)

BnMulSmall(a, m) == IF m = 0 THEN <<>> ELSE BnMulSmallC(a, m, 0)

\* a * 10000^k
BnShiftLimbs(a, k) == IF a = <<>> THEN <<>> ELSE [i \in 1..k |-> 0] \o a

\* a * 10^k
BnShift(a, k) == BnMulSmall(BnShiftLimbs(a, k \div 4), Pow10(k % 4))

RECURSIVE BnMul(_, _)
BnMul(a, b) ==
  IF a = <<>> \/ b = <<>> THEN <<>>
  ELSE BnAdd(BnMulSmall(a, b[1]), BnShiftLimbs(BnMul(a, Tail(b)), 1))

BnOne == <<1>>

\* the largest r, built one decimal digit at a time from position pos down,
\* with r * r * d <= t : floor(sqrt(t / d))
RECURSIVE BnSqrtFrom(_, _, _, _)
BnSqrtFrom(t, d, r, pos) ==
  IF pos < 0 THEN r
  ELSE LET fits(y) == LET c == BnAdd(r, BnShift(<<y>>, pos))
                      IN BnCmp(BnMul(BnMul(c, c), d), t) <= 0
           g == CHOOSE x \in 0..9 : fits(x) /\ (x = 9 \/ ~fits(x + 1))
       IN IF g = 0 THEN BnSqrtFrom(t, d, r, pos - 1)
          ELSE BnSqrtFrom(t, d, BnAdd(r, BnShift(<<g>>, pos)), pos - 1)

BnSqrt(t, d) == BnSqrtFrom(t, d, <<>>, 2 * Len(t) + 1)

NaN == [k |-> "nan", neg |-> FALSE, n |-> <<>>, d |-> BnOne]

Infinity(neg) == [k |-> "inf", neg |-> neg, n |-> <<>>, d |-> BnOne]

Fin(neg, n, d) == [k |-> "fin", neg |-> neg, n |-> n, d |-> d]

IsZero(a) == a.k = "fin" /\ a.n = <<>>

\* Number(x) of a BigInt or of an integer literal
NumberOfInt(i) == Fin(i < 0, BnFromInt(abs(i)), BnOne)

isFinite(a) == a.k = "fin"

NumNeg(a) == IF a.k = "nan" THEN a ELSE [a EXCEPT !.neg = ~a.neg]

MathAbs(a) == IF a.k = "nan" THEN a ELSE [a EXCEPT !.neg = FALSE]

\* a + b of two finite numbers; an exact zero sum is +0 unless both are -0
FinAdd(a, b) ==
  LET x == BnMul(a.n, b.d)
      y == BnMul(b.n, a.d)
      d == BnMul(a.d, b.d)
      c == BnCmp(x, y)
  IN IF a.neg = b.neg THEN Fin(a.neg, BnAdd(x, y), d)
     ELSE IF c = 0 THEN Fin(FALSE, <<>>, d)
     ELSE IF c > 0 THEN Fin(a.neg, BnSub(x, y), d)
     ELSE Fin(b.neg, BnSub(y, x), d)

NumAdd(a, b) ==
  IF a.k = "nan" \/ b.k = "nan" THEN NaN
  ELSE IF a.k = "inf" /\ b.k = "inf" THEN (IF a.neg = b.neg THEN a ELSE NaN)
  ELSE IF a.k = "inf" THEN a
  ELSE IF b.k = "inf" THEN b
  ELSE FinAdd(a, b)

NumSub(a, b) == NumAdd(a, NumNeg(b))

NumMul(a, b) ==
  IF a.k = "nan" \/ b.k = "nan" THEN NaN
  ELSE IF a.k = "inf" \/ b.k = "inf"
  THEN (IF IsZero(a) \/ IsZero(b) THEN NaN ELSE Infinity(a.neg # b.neg))
  ELSE Fin(a.neg # b.neg, BnMul(a.n, b.n), BnMul(a.d, b.d))

NumDiv(a, b) ==
  IF a.k = "nan" \/ b.k = "nan" THEN NaN
  ELSE IF a.k = "inf" THEN (IF b.k = "inf" THEN NaN ELSE Infinity(a.neg # b.neg))
  ELSE IF b.k = "inf" THEN Fin(a.neg # b.neg, <<>>, BnOne)
  ELSE IF IsZero(b) THEN (IF IsZero(a) THEN NaN ELSE Infinity(a.neg # b.neg))
  ELSE Fin(a.neg # b.neg, BnMul(a.n, b.d), BnMul(a.d, b.n))

\* a <= b
NumLe(a, b) ==
  IF a.k = "nan" \/ b.k = "nan" THEN FALSE
  ELSE IF a.k = "inf" THEN a.neg \/ (b.k = "inf" /\ ~b.neg)
  ELSE IF b.k = "inf" THEN ~b.neg
  ELSE LET x == BnMul(a.n, b.d)
           y == BnMul(b.n, a.d)
       IN IF x = <<>> /\ y = <<>> THEN TRUE
          ELSE IF a.neg /\ ~b.neg THEN TRUE
          ELSE IF ~a.neg /\ b.neg THEN FALSE
          ELSE IF a.neg THEN BnCmp(x, y) >= 0
          ELSE BnCmp(x, y) <= 0

\* Math.max of two
Max2(a, b) == IF a.k = "nan" \/ b.k = "nan" THEN NaN ELSE IF NumLe(a, b) THEN b ELSE a

MathMax(a, b, c) == Max2(Max2(a, b), c)

\* Math.sqrt: NaN below zero, and otherwise the root cut to SqrtDigits places
MathSqrt(a) ==
  IF a.k = "nan" THEN NaN
  ELSE IF IsZero(a) THEN a
  ELSE IF a.neg THEN NaN
  ELSE IF a.k = "inf" THEN a
  ELSE Fin(FALSE, BnSqrt(BnShift(a.n, 2 * SqrtDigits), a.d), BnShift(BnOne, SqrtDigits))

\* Math.PI = 3.141592653589793
MathPI == Fin(FALSE, BnFromDigits(<<"3", "1", "4", "1", "5", "9", "2", "6", "5", "3", "5", "8", "9", "7", "9", "3">>),
              BnShift(BnOne, 15))

toNumberF(a) == NumDiv(NumberOfInt(a.n), NumberOfInt(a.d))

nearlyEqual(a, b, tol) ==
  NumLe(MathAbs(NumSub(a, b)),
        NumMul(tol, MathMax(NumberOfInt(1), MathAbs(a), MathAbs(b))))

(***************************************************************************)
(* Number literals and String(number)                                      *)
(***************************************************************************)
\* the value of a decimal literal: digits, at most one '.', no exponent
NumberOfLiteral(s) ==
  LET p == SkipNotIn(s, 1, {"."})
      int == SubSeq(s, 1, p - 1)
      dec == SubSeq(s, p + 1, Len(s))
  IN Fin(FALSE, BnFromDigits(int \o dec), BnShift(BnOne, Len(dec)))

\* the decimal digits of 0 <= n < 10000, most significant first, none for 0
RECURSIVE IntToDigits(_)
IntToDigits(n) == IF n = 0 THEN <<>> ELSE Append(IntToDigits(n \div 10), DigitSeq[(n % 10) + 1])

Pad4(s) == [i \in 1..(4 - Len(s)) |-> "0"] \o s

\* the decimal digits of a natural number, most significant first
RECURSIVE BnToDigits(_)
BnToDigits(a) ==
  IF a = <<>> THEN <<>>
  ELSE IF Len(a) = 1 THEN IntToDigits(a[1])
  ELSE BnToDigits(Tail(a)) \o Pad4(IntToDigits(a[1]))

Zeros(k) == [i \in 1..k |-> "0"]

\* Number::toString(x) of ECMAScript for a number written x = n / 10^m :
\* with s the digits of x without trailing zeros, k their count and e such
\* that x = 0.s * 10^e, the text is s and e - k zeros (k <= e <= 21), s with
\* a point after e digits (0 < e <= 21), "0." and -e zeros and s
\* (-6 < e <= 0), and the exponent form otherwise.
NumberToString(x) ==
  IF x.k = "nan" THEN <<"N", "a", "N">>
  ELSE IF x.k = "inf"
  THEN (IF x.neg THEN <<"-">> ELSE <<>>) \o <<"I", "n", "f", "i", "n", "i", "t", "y">>
  ELSE IF x.n = <<>> THEN <<"0">>
  ELSE LET S == BnToDigits(x.n)
           m == Len(BnToDigits(x.d)) - 1
           s == SubSeq(S, 1, SkipBackIn(S, Len(S), {"0"}))
           k == Len(s)
           e == Len(S) - m
           x1 == e - 1
           exp == <<"e", IF x1 < 0 THEN "-" ELSE "+">>
                  \o (IF abs(x1) < 10 THEN <<DigitSeq[abs(x1) + 1]>>
                      ELSE IntToDigits(abs(x1)))
           body == IF k <= e /\ e <= 21 THEN s \o Zeros(e - k)
                   ELSE IF 0 < e /\ e <= 21 THEN SubSeq(s, 1, e) \o <<".">> \o SubSeq(s, e + 1, k)
                   ELSE IF 0 - 6 < e /\ e <= 0 THEN <<"0", ".">> \o Zeros(0 - e) \o s
                   ELSE IF k = 1 THEN s \o exp
                   ELSE <<s[1], ".">> \o SubSeq(s, 2, k) \o exp
       IN (IF x.neg THEN <<"-">> ELSE <<>>) \o body

(***************************************************************************)
(* tryEvalNumeric.  Function('Math', '"use strict"; return (' + s0 + ')')  *)
(* is modelled on the fragment of JavaScript that InFragment describes:    *)
(* decimal literals, + - * / with unary + and -, parentheses, Math.PI,     *)
(* Math.sqrt(...) and names that are bound to nothing.  On that fragment   *)
(* every SyntaxError, ReferenceError and TypeError ends in the catch, and  *)
(* NaN spreads through every operator, so both are the result NaN.         *)
(***************************************************************************)
\* \w of a regular expression
WordChars == Letters \cup Digits \cup {"_"}

\* /\bpi\b/ with 'Math.PI'
RxPiWord(s, i) ==
  IF HasAt(s, i, <<"p", "i">>) /\ At(s, i - 1) \notin WordChars /\ At(s, i + 2) \notin WordChars
  THEN Match(2, <<"M", "a", "t", "h", ".", "P", "I">>) ELSE NoMatch

\* /sqrt\(/ with 'Math.sqrt('
RxSqrtCall(s, i) ==
  IF HasAt(s, i, <<"s", "q", "r", "t", "(">>)
  THEN Match(5, <<"M", "a", "t", "h", ".", "s", "q", "r", "t", "(">>) ELSE NoMatch

\* normalizeMathInput(expr).replace(pi).replace(sqrt).replace(/\s+/g, '')
piWords(s) == ReplaceAll(s, [i \in 1..Len(s) |-> RxPiWord(s, i)])

\* the replace of sqrt( left out
sqrtCallsNone(s) == s

sqrtCalls(s) == ReplaceAll(s, [i \in 1..Len(s) |-> RxSqrtCall(s, i)])

removeSpaces(s) == SelectSeq(s, LAMBDA c : c \notin WhiteSpace)

substitute(expr) == removeSpaces(sqrtCalls(piWords(normalizeMathInput(expr))))

\* /[^0-9+\-*/().,A-Za-z]/.test(s0)
whitelistFails(s0) ==
  \E i \in 1..Len(s0) : s0[i] \notin (Digits \cup Letters \cup {"+", "-", "*", "/", "(", ")", ".", ","})

\* names that the page binds to nothing: reading one is a ReferenceError
UnboundNames == {<<"x">>, <<"y">>, <<"s", "q", "r", "t">>, <<"f", "r", "a", "c">>}

MathPIText == <<"M", "a", "t", "h", ".", "P", "I">>

MathSqrtText == <<"M", "a", "t", "h", ".", "s", "q", "r", "t", "(">>

\* The fragment: no comma operator, no ** and no comment; a literal is not
\* followed by e, E or n, nor 0 by x, b, o (other literal forms); a name is
\* Math.PI, Math.sqrt( or an unbound name; no other property is read.
InFragment(s0) ==
  /\ \A i \in 1..Len(s0) :
       /\ s0[i] # ","
       /\ ~HasAt(s0, i, <<"*", "*">>)
       /\ ~HasAt(s0, i, <<"/", "*">>)
       /\ (s0[i] \in Digits /\ At(s0, i + 1) \in Letters)
            => /\ s0[i + 1] \notin {"e", "E", "n"}
               /\ ~(s0[i] = "0" /\ At(s0, i - 1) \notin (Digits \cup {"."})
                    /\ s0[i + 1] \in {"x", "X", "b", "B", "o", "O"})
       /\ (s0[i] = "." /\ At(s0, i + 1) \in Letters)
            => \/ HasAt(s0, i - 4, MathPIText) /\ At(s0, i + 3) \notin WordChars
                                                /\ At(s0, i - 5) \notin (WordChars \cup {"."})
               \/ HasAt(s0, i - 4, MathSqrtText) /\ At(s0, i - 5) \notin (WordChars \cup {"."})
       /\ (s0[i] \in Letters /\ At(s0, i - 1) \notin (WordChars \cup {"."}))
            => LET j == SkipIn(s0, i, WordChars)
                   name == SubSeq(s0, i, j - 1)
               IN \/ name \in UnboundNames /\ At(s0, j) # "."
                  \/ HasAt(s0, i, MathPIText) /\ j = i + 4
                  \/ HasAt(s0, i, MathSqrtText) /\ j = i + 4

\* What evaluating from index i gives: [ok, v, i], v the number and i the
\* index after the expression; ok is FALSE for an error of any kind.
JsValue(v, i) == [ok |-> TRUE, v |-> v, i |-> i]

JsError == [ok |-> FALSE, v |-> NaN, i |-> 0]

\* js(fn, s, left, i) evaluates the production fn of the grammar from index
\* i ("MulLoop" and "AddLoop": the rest of a product or sum whose value so
\* far is 'left').
\* Primary: a literal (no leading zero in strict mode, nothing of a name
\* right after it), a parenthesised expression, Math.sqrt(expression),
\* Math.PI; nothing here can be called or has a property that is read.
\* Unary: + and -; ++ and -- are one token each, and nothing here can be
\* incremented.
RECURSIVE js(_, _, _, _)
js(fn, s, left, i) ==
  IF fn = "Primary"
  THEN IF At(s, i) \in Digits \cup {"."}
       THEN LET j == SkipIn(s, i, Digits)
                k == IF At(s, j) = "." THEN SkipIn(s, j + 1, Digits) ELSE j
                text == SubSeq(s, i, k - 1)
            IN IF text = <<".">> THEN JsError
               ELSE IF j - i >= 2 /\ s[i] = "0" THEN JsError
               ELSE IF At(s, k) \in WordChars \cup {".", "("} THEN JsError
               ELSE JsValue(NumberOfLiteral(text), k)
       ELSE IF At(s, i) = "("
       THEN LET e == js("Additive", s, left, i + 1)
            IN IF e.ok /\ At(s, e.i) = ")" /\ At(s, e.i + 1) \notin {"(", "."}
               THEN JsValue(e.v, e.i + 1) ELSE JsError
       ELSE IF HasAt(s, i, MathSqrtText)
       THEN LET e == js("Additive", s, left, i + Len(MathSqrtText))
            IN IF e.ok /\ At(s, e.i) = ")" /\ At(s, e.i + 1) \notin {"(", "."}
               THEN JsValue(MathSqrt(e.v), e.i + 1) ELSE JsError
       ELSE IF HasAt(s, i, MathPIText) /\ At(s, i + Len(MathPIText)) \notin {"(", "."}
       THEN JsValue(MathPI, i + Len(MathPIText))
       ELSE JsError
  ELSE IF fn = "Unary"
  THEN IF At(s, i) \in {"+", "-"}
       THEN IF At(s, i + 1) = s[i] THEN JsError
            ELSE LET u == js("Unary", s, left, i + 1)
                 IN IF ~u.ok THEN JsError
                    ELSE JsValue(IF s[i] = "-" THEN NumNeg(u.v) ELSE u.v, u.i)
       ELSE js("Primary", s, left, i)
  ELSE IF fn = "Multiplicative"
  THEN LET u == js("Unary", s, left, i)
       IN IF u.ok THEN js("MulLoop", s, u.v, u.i) ELSE JsError
  ELSE IF fn = "MulLoop"
  THEN IF At(s, i) \in {"*", "/"}
       THEN LET r == js("Unary", s, left, i + 1)
            IN IF ~r.ok THEN JsError
               ELSE js("MulLoop", s,
                       IF s[i] = "*" THEN NumMul(left, r.v) ELSE NumDiv(left, r.v), r.i)
       ELSE JsValue(left, i)
  ELSE IF fn = "Additive"
  THEN LET m == js("Multiplicative", s, left, i)
       IN IF m.ok THEN js("AddLoop", s, m.v, m.i) ELSE JsError
  ELSE IF At(s, i) \in {"+", "-"}
       THEN IF At(s, i + 1) = s[i] THEN JsError
            ELSE LET r == js("Multiplicative", s, left, i + 1)
                 IN IF ~r.ok THEN JsError
                    ELSE js("AddLoop", s,
                            IF s[i] = "+" THEN NumAdd(left, r.v) ELSE NumSub(left, r.v), r.i)
       ELSE JsValue(left, i)

\* Function('Math', '"use strict"; return (' + s0 + ')')(Math), NaN for a throw
runFunction(s0) ==
  LET e == js("Additive", s0, NaN, 1)
  IN IF e.ok /\ e.i = Len(s0) + 1 THEN e.v ELSE NaN

\* const num = Number(val); return Number.isFinite(num) ? num : NaN
finiteOrNaN(num) == IF isFinite(num) THEN num ELSE NaN

evalSubstituted(s0) == IF whitelistFails(s0) THEN NaN ELSE finiteOrNaN(runFunction(s0))

tryEvalNumeric(expr) == evalSubstituted(substitute(expr))

(***************************************************************************)
(* Questions.  SAMPLE_QUESTIONS holds q1, q2 and q3; checkAnswer also      *)
(* grades a numeric target with any number as value, with or without a     *)
(* tolerance, and a string target, so the bank continues with questions of *)
(* those shapes.                                                           *)
(***************************************************************************)
Undefined == [typeof |-> "undefined"]

\* { value, tol }
NumericTarget(value, tol) == [typeof |-> "object", value |-> value, tol |-> tol, str |-> <<>>]

StringTarget(str) == [typeof |-> "string", value |-> NaN, tol |-> Undefined, str |-> str]

Choice(id, correct) == [id |-> id, correct |-> correct]

Question(id, type, choices, answer) ==
  [id |-> id, type |-> type, choices |-> choices, answer |-> answer]

\* 1e-9 and 1e-6
Tol9 == NumDiv(NumberOfInt(1), NumberOfInt(1000000000))

Tol6 == NumDiv(NumberOfInt(1), NumberOfInt(1000000))

SAMPLE_QUESTIONS ==
  <<Question("q1", "mcq",
             <<Choice(<<"a">>, FALSE), Choice(<<"b">>, TRUE),
               Choice(<<"c">>, FALSE), Choice(<<"d">>, FALSE)>>, Undefined),
    Question("q2", "free", <<>>, NumericTarget(NumberOfLiteral(<<"0", ".", "3", "7", "5">>), Tol9)),
    Question("q3", "free", <<>>, NumericTarget(NumberOfInt(4), Tol9))>>

\* questions of the other shapes that checkAnswer grades
MoreQuestions ==
  <<Question("q4", "free", <<>>, NumericTarget(NumberOfInt(5), Tol6)),
    Question("q5", "free", <<>>,
             NumericTarget(NumberOfLiteral(<<"1", ".", "4", "1", "4", "2", "1", "3", "5", "6", "2", "4">>), Tol6)),
    Question("q6", "free", <<>>,
             NumericTarget(NumNeg(NumberOfLiteral(<<"0", ".", "5">>)), Undefined)),
    Question("q7", "free", <<>>,
             NumericTarget(NumDiv(NumberOfInt(1), NumberOfInt(10000000)), Tol9)),
    Question("q8", "free", <<>>, NumericTarget(Fin(FALSE, BnShift(BnOne, 21), BnOne), Tol6)),
    Question("q9", "free", <<>>, NumericTarget(NaN, Tol6)),
    Question("q10", "free", <<>>, NumericTarget(Infinity(FALSE), Tol6)),
    Question("q11", "free", <<>>, StringTarget(<<"a", "p", "p", "l", "e", " ", "p", "i", "e">>)),
    Question("q12", "free", <<>>, NumericTarget(NumNeg(NumberOfLiteral(<<"1", ".", "5">>)), Tol9))>>

Questions == {SAMPLE_QUESTIONS[i] : i \in 1..Len(SAMPLE_QUESTIONS)}
             \cup {MoreQuestions[i] : i \in 1..Len(MoreQuestions)}

(***************************************************************************)
(* checkAnswer                                                             *)
(***************************************************************************)
\* norm with the replace of /\s+/g left out
normTextTrimOnly(s) == Trim(s)

\* const norm = (s) => String(s ?? '').replace(/\s+/g, ' ').trim()
normText(s) == Trim(ReplaceAll(s, [i \in 1..Len(s) |-> RxSpaces(s, i)]))

\* what a part of checkAnswer that did not run leaves behind
NotRun == [ok |-> FALSE, err |-> "not run", frac |-> Frac(0, 0)]

\* A call of checkAnswer: it returned the verdict 'correct' or an exception
\* left it; a and b are what tryEvalAlgebraic and fromDecimalString gave,
\* fallback whether tryEvalNumeric ran and val what it gave.
Outcome(status, correct, a, b, fallback, val) ==
  [status |-> status, correct |-> correct, a |-> a, b |-> b,
   fallback |-> fallback, val |-> val]

NoCall == Outcome("none", FALSE, NotRun, NotRun, FALSE, NaN)

\* q.choices?.find(c => c.id === chosen), then !!found?.correct
mcqCorrect(question, chosen) ==
  \E i \in 1..Len(question.choices) :
    /\ question.choices[i].id = chosen
    /\ \A j \in 1..(i - 1) : question.choices[j].id # chosen
    /\ question.choices[i].correct

\* expected.tol ?? 1e-6
tolOf(expected) == IF expected.tol = Undefined THEN Tol6 ELSE expected.tol

\* the branch for typeof expected.value === 'number'
\* if (!correct) { const val = tryEvalNumeric(currentAnswer); ... }
numericFallback(expected, a, b, val) ==
  Outcome("returned", nearlyEqual(val, expected.value, tolOf(expected)), a, b, TRUE, val)

\* if (a.ok) { const b = fromDecimalString(String(expected.value)); ... }:
\* the SyntaxError of BigInt() leaves checkAnswer from here
algebraicFirst(expected, answer, a, b) ==
  IF ~a.ok THEN numericFallback(expected, a, NotRun, tryEvalNumeric(answer))
  ELSE IF ~b.ok THEN Outcome("threw", FALSE, a, b, FALSE, NaN)
  ELSE IF eqF(a.frac, b.frac)
          \/ nearlyEqual(toNumberF(a.frac), expected.value, tolOf(expected))
  THEN Outcome("returned", TRUE, a, b, FALSE, NaN)
  ELSE numericFallback(expected, a, b, tryEvalNumeric(answer))

\* the branch for typeof expected.value === 'number'
numericBranch(expected, answer) ==
  algebraicFirst(expected, answer, tryEvalAlgebraic(answer),
                 fromDecimalString(NumberToString(expected.value)))

checkAnswer(question, answer) ==
  IF question.type = "mcq"
  THEN Outcome("returned", mcqCorrect(question, answer), NotRun, NotRun, FALSE, NaN)
  ELSE IF question.answer.typeof = "object"
  THEN numericBranch(question.answer, answer)
  ELSE IF question.answer.typeof = "string"
  THEN Outcome("returned", normText(answer) = normText(question.answer.str),
               NotRun, NotRun, FALSE, NaN)
  ELSE Outcome("returned", FALSE, NotRun, NotRun, FALSE, NaN)

\* what the student types into the field of a free question
NumericAnswers ==
  {<<"3", "/", "8">>,
   <<"0", ".", "3", "7", "5">>,
   <<"(", " ", "\\", "f", "r", "a", "c", "{", "1", "}", "{", "2", "}", " ", ")", "^", "3", " ", "+", " ", "\\", "f", "r", "a", "c", "{", "1", "}", "{", "4", "}">>,
   <<"\\", "f", "r", "a", "c", "{", "3", "}", "{", "8", "}">>,
   <<"4">>,
   <<"8", "/", "2">>,
   <<"5">>,
   <<"5", "/", "0">>,
   <<"0", "/", "0">>,
   <<"-", "3", "/", "0">>,
   <<"(", "5", ")", "/", "(", "0", ")">>,
   <<"1", "/", "2">>,
   <<"-", "1", "/", "2">>,
   <<"0", ".", "5">>,
   <<"-", "0", ".", "5">>,
   <<"-", "1", ".", "5">>,
   <<"s", "q", "r", "t", "(", "2", ")">>,
   <<"\\", "s", "q", "r", "t", "{", "2", "}">>,
   <<"p", "i", "/", "6">>,
   <<"x">>,
   <<"2", "x">>,
   <<"2", "^", "x">>,
   <<"1", "/", "0", "+", "x">>,
   <<"x", ")">>,
   <<"1", ".", "4", "1", "4", "2", "1", "4">>,
   <<"1", ".", "4", "1">>,
   <<"1", "/", "1", "0", "0", "0", "0", "0", "0", "0">>,
   <<"1", "/", "(", "1", "-", "1", ")">>,
   <<"3", " ", "/", " ", "8">>}

TextAnswers ==
  {<<" ", "A", "p", "p", "l", "e", " ", " ", " ", "p", "i", "e", " ">>,
   <<"a", "p", "p", "l", "e", " ", "p", "i", "e">>,
   <<" ", "a", "p", "p", "l", "e", " ", "\t", " ", "p", "i", "e", " ">>,
   <<"a", "p", "p", "l", "e", "p", "i", "e">>,
   <<"A", "p", "p", "l", "e", " ", "p", "i", "e">>}

\* BigInt is modelled within TLC's integers: a text of at most MaxDigits digits
MaxDigits == 9

FitsBigInt(str) == Len(SelectSeq(str, LAMBDA c : c \in Digits)) <= MaxDigits

\* The texts in reach of the model for a question: the numeric evaluator is
\* modelled on its fragment of JavaScript and the fraction of the expected
\* value within TLC's integers.  A multiple-choice question offers its
\* choices as buttons, a free question the field.
Typed(question) ==
  IF question.type = "mcq"
  THEN {question.choices[i].id : i \in 1..Len(question.choices)}
  ELSE IF question.answer.typeof = "string" THEN NumericAnswers \cup TextAnswers
  ELSE {v \in NumericAnswers :
          /\ InFragment(substitute(v))
          /\ tryEvalAlgebraic(v).ok => FitsBigInt(NumberToString(question.answer.value))}

TypedOf == [question \in Questions |-> Typed(question)]

(***************************************************************************)
(* The practice page: one question on screen, the answer typed for it and  *)
(* the Check button                                                        *)
(***************************************************************************)
\* The page before React mounts it.  strict: React.StrictMode runs every
\* effect of a mounting component twice (development build); the production
\* build runs it once.  appLoads and fieldLoads count the calls of
\* ensureMathlive, from the page's effect and from MathField's, that wait at
\* 'await import(...)'; appReturns the calls from the page's effect that
\* returned at once and whose finally() has not run yet.  initiated counts
\* the evaluations of import('mathlive'), failed tells that one was rejected.
Unmounted(strict) ==
  [strict |-> strict, mounted |-> FALSE, fieldMounted |-> FALSE,
   mathliveLoaded |-> FALSE, useMathField |-> TRUE, loadingMathfield |-> FALSE,
   appLoads |-> 0, fieldLoads |-> 0, appReturns |-> 0, initiated |-> 0, failed |-> FALSE]

Idle == [op |-> "none", a |-> Frac(0, 1), b |-> Frac(0, 1), k |-> 0, str |-> <<>>,
         done |-> FALSE, r |-> NotRun, out |-> <<>>, tokens |-> <<>>]

Init ==
  /\ q \in Questions
  /\ currentAnswer = <<>>
  /\ call = NoCall
  /\ fop = Idle
  /\ loader = Unmounted(TRUE)

\* updateAnswer(v): setAnswers(prev => ({...prev, [q.id]: v}))
UpdateAnswer(v) ==
  /\ currentAnswer' = v
  /\ call' = NoCall
  /\ UNCHANGED <<q, fop, loader>>

\* the Check button: onClick={checkAnswer}
CheckAnswer ==
  /\ call' = checkAnswer(q, currentAnswer)
  /\ UNCHANGED <<q, currentAnswer, fop, loader>>

Next ==
  \/ \E v \in TypedOf[q] : UpdateAnswer(v)
  \/ CheckAnswer

Spec == Init /\ [][Next]_vars

(***************************************************************************)
(* The fraction utilities, tryEvalAlgebraic and normalizeMathInput, each   *)
(* applied once to an input drawn at the start: fop holds the operation,   *)
(* its operands and, once done, its result.                                *)
(***************************************************************************)
MaxInt == 4

MaxExp == 3

Ints == (0 - MaxInt)..MaxInt

\* no k > 1 divides both
CoPrime(n, d) == \A k \in 2..d : ~(n % k = 0 /\ d % k = 0)

\* the invariant of a fraction: denominator > 0 and fully reduced
IsFraction(f) == f.d > 0 /\ CoPrime(f.n, f.d)

Fractions == {f \in {Frac(n, d) : n \in Ints, d \in 1..MaxInt} : IsFraction(f)}

\* the decimal text of an integer
IntText(a) ==
  IF a = 0 THEN <<"0">>
  ELSE (IF a < 0 THEN <<"-">> ELSE <<>>) \o IntToDigits(abs(a))

\* the texts "a/b" and "(a)/(b)"
QuotientTexts(a, b) ==
  {IntText(a) \o <<"/">> \o IntText(b),
   <<"(">> \o IntText(a) \o <<")", "/", "(">> \o IntText(b) \o <<")">>}

\* expressions that divide by a quantity whose value is zero
ZeroDivisorTexts ==
  {<<"1", "/", "(", "1", "-", "1", ")">>,
   <<"2", "/", "(", "0", "/", "3", ")">>,
   <<"1", "/", "0", ".", "0">>,
   <<"(", "1", "+", "2", ")", "/", "0">>,
   <<"1", "/", "(", "2", "-", "2", ")", "+", "1">>,
   <<"3", "/", "(", "4", "*", "0", ")">>}

\* the texts fromDecimalString is given: number tokens and String(value)
DecimalStrings ==
  {<<"0", ".", "5">>,
   <<"1", ".", "5">>,
   <<"0", ".", "3", "7", "5">>,
   <<".", "5">>,
   <<"5", ".">>,
   <<"0", ".", "2", "5">>,
   <<"2", ".", "5", "0">>,
   <<"1", "0", ".", "0">>,
   <<"1", ".", "2", ".", "3">>,
   <<"-", "0", ".", "5">>,
   <<"-", "1", ".", "5">>,
   <<"4">>,
   <<"-", "4">>,
   <<"0", ".", "0">>,
   <<"4", ".">>,
   <<"1", "2", ".", "7", "5">>}

\* raw texts for normalizeMathInput
RawInputs ==
  {<<"$", "$", "x", "$", "$">>,
   <<"$", "\\", "(", "x", "\\", ")", "$">>,
   <<"{", "{", "3", "}", "}">>,
   <<"\\", "(", "$", "x", "$", "\\", ")">>,
   <<" ", "3", "/", "8", " ">>,
   <<"\\", "f", "r", "a", "c", "{", "1", "}", "{", "2", "}">>,
   <<"\\", "l", "e", "f", "t", "(", " ", "\\", "f", "r", "a", "c", "{", "1", "}", "{", "2", "}", " ", "\\", "r", "i", "g", "h", "t", ")", "^", "3">>,
   <<"(", " ", "\\", "f", "r", "a", "c", "{", "1", "}", "{", "2", "}", " ", ")", "^", "3", " ", "+", " ", "\\", "f", "r", "a", "c", "{", "1", "}", "{", "4", "}">>,
   <<"x">>,
   <<"U+00BD">>,
   <<"1", ",", "5">>,
   <<"\\", "s", "q", "r", "t", "{", "2", "}">>,
   <<"2", "^", "{", "3", "}">>,
   <<"\\", "p", "i">>,
   <<"{", "3", "}">>,
   <<"$", "x", "$">>,
   <<"\\", "(", "x", "\\", ")">>,
   <<"3", " ", "U+00D7", " ", "4">>,
   <<>>,
   <<"a", " ", " ", "b">>,
   <<"\\", "f", "r", "a", "c", "{", "\\", "f", "r", "a", "c", "{", "1", "}", "{", "2", "}", "}", "{", "3", "}">>,
   <<"\\", "o", "p", "e", "r", "a", "t", "o", "r", "n", "a", "m", "e", "{", "s", "i", "n", "}", "x">>,
   <<"\\", ",", "3", "\\", ";">>,
   <<"U+03C0">>,
   <<"U+2212", "3">>,
   <<"1", "U+200B", "2">>,
   <<"\\", "d", "f", "r", "a", "c", "{", "3", "}", "{", "8", "}">>,
   <<"\\", "t", "f", "r", "a", "c", "{", "3", "}", "{", "8", "}">>,
   <<"3", " ", "U+00F7", " ", "4">>,
   <<"{", " ", "3", " ", "}">>,
   <<"2", "^", "{", "1", "0", "}">>,
   <<"\\", "f", "r", "a", "c", "{", "3", "}", "{", "8", "}">>,
   <<"1", "/", "2">>,
   <<"a", "\t", "b">>,
   <<"$", "3", "$">>,
   <<"\\", "s", "q", "r", "t", "{", "\\", "f", "r", "a", "c", "{", "1", "}", "{", "4", "}", "}">>}

\* texts of digits, letters, parentheses, single spaces and commas
CommaTexts ==
  {<<"3", ",", "5">>,
   <<"1", ",", "2", "3", "4">>,
   <<"1", ",", "2", "3", "4", ",", "5", "6", "7">>,
   <<"a", ",", "b">>,
   <<",", "5">>,
   <<"5", ",">>,
   <<"1", ",", ",", "2">>,
   <<"1", ",", " ", "2">>,
   <<"f", "(", "1", ",", "2", ")">>,
   <<"x", ",", "1">>,
   <<"1", ",", "x">>,
   <<"0", ",", "5", "+", "1", ",", "5">>,
   <<"(", "1", ",", "2", ")">>,
   <<"1", " ", ",", "2">>,
   <<"1", ",", "2", ",", "x">>,
   <<"1", "2", ",", "7", "5">>}

\* commas next to a macro or an invisible character
CommaMacroTexts ==
  {<<"2", "\\", ",", "x">>,
   <<"1", "\\", ",", "5">>,
   <<"\\", "h", "s", "p", "a", "c", "e", "{", "1", ",", "2", "}", "3", ",", "5">>,
   <<"3", ",", "U+200B", "5">>,
   <<"\\", "f", "r", "a", "c", "{", "1", ",", "5", "}", "{", "2", "}">>}

\* texts of digits, operators and vulgar-fraction glyphs
GlyphTexts ==
  {<<"U+00BD">>,
   <<"U+00BC">>,
   <<"U+00BE">>,
   <<"U+2153">>,
   <<"U+2154">>,
   <<"U+2155">>,
   <<"U+2156">>,
   <<"U+2157">>,
   <<"U+2158">>,
   <<"U+2159">>,
   <<"U+215A">>,
   <<"U+215B">>,
   <<"U+215C">>,
   <<"U+215D">>,
   <<"U+215E">>,
   <<"1", "U+00BD">>,
   <<"U+00BD", "x">>,
   <<"3", "U+00BE", "+", "1">>,
   <<"2", "*", "U+2154">>}

\* the text of a fraction as a base: "(n)" or "(n/d)"
BaseText(x) ==
  IF x.d = 1 THEN <<"(">> \o IntText(x.n) \o <<")">>
  ELSE <<"(">> \o IntText(x.n) \o <<"/">> \o IntText(x.d) \o <<")">>

\* the texts "x^(-k)", "x^-k" and "x^{-k}"
NegativePowerTexts(x, k) ==
  {BaseText(x) \o <<"^", "(", "-">> \o IntText(k) \o <<")">>,
   BaseText(x) \o <<"^", "-">> \o IntText(k),
   BaseText(x) \o <<"^", "{", "-">> \o IntText(k) \o <<"}">>}

\* \frac{n}{d}, \dfrac{n}{d} or \tfrac{n}{d}, n and d texts
FracMacros == {<<BS, "f", "r", "a", "c">>, <<BS, "d", "f", "r", "a", "c">>, <<BS, "t", "f", "r", "a", "c">>}

FracText(m, n, d) == m \o <<"{">> \o n \o <<"}", "{">> \o d \o <<"}">>

\* A fraction whose numerator ("num"), denominator ("den") or both are
\* fractions of integers, with the quotient it denotes as the pair [n, d].
NestedFraction(shape, m, a, b, c, e) ==
  IF shape = "num"
  THEN [str |-> FracText(m, FracText(m, IntText(a), IntText(b)), IntText(c)),
        val |-> Frac(a, b * c)]
  ELSE IF shape = "den"
  THEN [str |-> FracText(m, IntText(a), FracText(m, IntText(b), IntText(c))),
        val |-> Frac(a * c, b)]
  ELSE [str |-> FracText(m, FracText(m, IntText(a), IntText(b)), FracText(m, IntText(c), IntText(e))),
        val |-> Frac(a * e, b * c)]

NestedFractions ==
  {NestedFraction(shape, m, a, b, c, 1) :
     shape \in {"num", "den"}, m \in FracMacros, a \in 1..MaxInt, b \in 1..MaxInt, c \in 1..MaxInt}
  \cup {NestedFraction("both", m, a, b, c, e) :
     m \in FracMacros, a \in 1..2, b \in 1..2, c \in 1..2, e \in 1..2}

\* texts for tokenize
TokenizeTexts ==
  {<<"3", "/", "8">>,
   <<"{", "3", "}">>,
   <<"[", "3", "]">>,
   <<"1", "{", "2">>,
   <<"2", "]", "3">>,
   <<"3", "#", "4">>,
   <<"3", " ", "$", " ", "4">>,
   <<"1", ",", "2">>,
   <<"a", "_", "b">>,
   <<"x", "!">>,
   <<"2", "\t", "3">>,
   <<"3", "=", "3">>,
   <<"{", "3", "}", "/", "{", "8", "}", "#">>,
   <<"\\", "f", "r", "a", "c">>,
   <<"1", ".", "2", ".", "3">>,
   <<"1", ".", ".", "2">>,
   <<".", "5">>,
   <<"5", ".">>,
   <<"1", "2", ".", "5">>,
   <<"1", ".", "2", ".", "3", "+", "1">>,
   <<".", ".">>,
   <<".">>,
   <<"2", "^", "(", "x", "+", "1", ")">>,
   <<"s", "q", "r", "t", "(", "2", ")", " ", "*", " ", "p", "i">>,
   <<>>,
   <<"(", "1", ")", "/", "(", "2", ")">>,
   <<"1", "|", "2">>,
   <<"{", "}">>,
   <<"3", " ", "%", " ", "2">>}

\* texts with a run of digits that holds two points or more, or does so once
\* its decimal commas are points
ManyPointTexts ==
  {<<"1", ".", "2", ".", "3">>,
   <<"1", ",", "2", "3", "4", ",", "5", "6", "7">>,
   <<"1", ".", ".", "2">>,
   <<"1", ".", "2", ".", "3", "+", "1">>,
   <<"0", ".", "1", ".", "2", "/", "2">>,
   <<"1", ",", "2", ",", "3">>}

\* texts for the loop that rewrites the fraction macros
FracLoopTexts ==
  {<<"\\", "f", "r", "a", "c", "{", "\\", "f", "r", "a", "c", "{", "1", "}", "{", "2", "}", "}", "{", "3", "}">>,
   <<"\\", "f", "r", "a", "c", "{", "1", "}", "{", "\\", "f", "r", "a", "c", "{", "2", "}", "{", "3", "}", "}">>,
   <<"\\", "f", "r", "a", "c", "{", "\\", "s", "q", "r", "t", "{", "2", "}", "}", "{", "2", "}">>,
   <<"\\", "f", "r", "a", "c", "{", "\\", "f", "r", "a", "c", "{", "\\", "f", "r", "a", "c", "{", "1", "}", "{", "2", "}", "}", "{", "3", "}", "}", "{", "4", "}">>,
   <<"\\", "f", "r", "a", "c", "{", "1", "}", "{", "2", "}", "\\", "f", "r", "a", "c", "{", "3", "}", "{", "4", "}">>,
   <<"\\", "f", "r", "a", "c", "{", "}", "{", "2", "}">>,
   <<"\\", "f", "r", "a", "c", "{", "1", "}", "{", "2">>,
   <<"\\", "d", "f", "r", "a", "c", "{", "\\", "t", "f", "r", "a", "c", "{", "1", "}", "{", "2", "}", "}", "{", "3", "}">>,
   <<"\\", "f", "r", "a", "c", "{", "a", "}", "{", "\\", "f", "r", "a", "c", "{", "b", "}", "{", "\\", "f", "r", "a", "c", "{", "c", "}", "{", "d", "}", "}", "}">>,
   <<"x">>,
   <<>>,
   <<"\\", "f", "r", "a", "c", "{", "$", "1", "}", "{", "$", "2", "}">>,
   <<"\\", "f", "r", "a", "c", "{", "\\", "f", "r", "a", "c", "}", "{", "\\", "f", "r", "a", "c", "}">>,
   <<"\\", "f", "r", "a", "c", "{", "\\", "f", "r", "a", "c", "{", "1", "}", "{", "2", "}", "}", "{", "\\", "f", "r", "a", "c", "{", "3", "}", "{", "4", "}", "}", "+", "\\", "f", "r", "a", "c", "{", "5", "}", "{", "6", "}">>,
   <<"\\", "f", "r", "a", "c", "\\", "f", "r", "a", "c", "{", "1", "}", "{", "2", "}", "{", "3", "}">>,
   <<"\\", "f", "r", "a", "c", "{", "\\", "p", "i", "}", "{", "\\", "f", "r", "a", "c", "{", "\\", "p", "i", "}", "{", "2", "}", "}">>,
   <<"(", " ", "\\", "f", "r", "a", "c", "{", "1", "}", "{", "2", "}", " ", ")", "^", "3", " ", "+", " ", "\\", "f", "r", "a", "c", "{", "1", "}", "{", "4", "}">>,
   <<"\\", "f", "r", "a", "c", "{", "\\", "f", "r", "a", "c", "{", "\\", "f", "r", "a", "c", "{", "\\", "f", "r", "a", "c", "{", "1", "}", "{", "2", "}", "}", "{", "3", "}", "}", "{", "4", "}", "}", "{", "5", "}">>,
   <<"\\", "f", "r", "a", "c", "{", "x", "}", "{", "\\", "d", "f", "r", "a", "c", "{", "1", "}", "{", "\\", "t", "f", "r", "a", "c", "{", "2", "}", "{", "3", "}", "}", "}", "{", "4", "}", "{", "5", "}">>}

Op(op, a, b, k, str) ==
  [op |-> op, a |-> a, b |-> b, k |-> k, str |-> str,
   done |-> FALSE, r |-> NotRun, out |-> <<>>, tokens |-> <<>>]

\* The operands satisfy the invariant; norm and the fast path take two
\* integers, kept as the pair a (for tryEvalAlgebraic k = 1 marks the texts
\* "a/b" and "(a)/(b)" of the pair, k = 2 the texts of a raised to minus b.n,
\* k = 3 the nested fractions that denote the quotient a, k = 4 the texts of
\* ManyPointTexts).
FracInputs ==
  {Op("norm", Frac(n, d), Frac(0, 1), 0, <<>>) : n \in Ints, d \in Ints \ {0}}
  \cup {Op(o, a, b, 0, <<>>) : o \in {"addF", "subF", "mulF", "divF"}, a \in Fractions, b \in Fractions}
  \cup {Op("powF", a, Frac(0, 1), k, <<>>) : a \in Fractions, k \in (0 - MaxExp)..MaxExp}
  \cup {Op("negF", a, Frac(0, 1), 0, <<>>) : a \in Fractions}
  \cup {Op("fromDecimalString", Frac(0, 1), Frac(0, 1), 0, s) : s \in DecimalStrings}
  \cup UNION {{Op("tryEvalAlgebraic", Frac(a, b), Frac(0, 1), 1, s) : s \in QuotientTexts(a, b)} :
                a \in Ints, b \in Ints}
  \cup {Op("tryEvalAlgebraic", Frac(0, 1), Frac(0, 1), 0, s) : s \in ZeroDivisorTexts}
  \cup UNION {{Op("tryEvalAlgebraic", x, Frac(k, 1), 2, s) : s \in NegativePowerTexts(x, k)} :
                x \in Fractions \ {Frac(0, 1)}, k \in 1..MaxExp}
  \cup {Op("tryEvalAlgebraic", f.val, Frac(0, 1), 3, f.str) : f \in NestedFractions}
  \cup {Op("tryEvalAlgebraic", Frac(0, 1), Frac(0, 1), 4, s) : s \in ManyPointTexts}
  \cup {Op("tokenize", Frac(0, 1), Frac(0, 1), 0, s) : s \in TokenizeTexts}
  \cup {Op("normalizeMathInput", Frac(0, 1), Frac(0, 1), 0, s) :
          s \in RawInputs \cup CommaTexts \cup CommaMacroTexts \cup GlyphTexts}

InitFrac ==
  /\ q = SAMPLE_QUESTIONS[1]
  /\ currentAnswer = <<>>
  /\ call = NoCall
  /\ fop \in FracInputs
  /\ loader = Unmounted(TRUE)

Pending(op) == fop.op = op /\ ~fop.done

Done(r) ==
  /\ fop' = [fop EXCEPT !.done = TRUE, !.r = r]
  /\ UNCHANGED <<q, currentAnswer, call, loader>>

Norm == Pending("norm") /\ Done(Ok(norm(fop.a.n, fop.a.d)))

AddF == Pending("addF") /\ Done(Ok(addF(fop.a, fop.b)))

SubF == Pending("subF") /\ Done(Ok(subF(fop.a, fop.b)))

MulF == Pending("mulF") /\ Done(Ok(mulF(fop.a, fop.b)))

DivF == Pending("divF") /\ Done(divF(fop.a, fop.b))

PowF == Pending("powF") /\ Done(Ok(powF(fop.a, fop.k)))

NegF == Pending("negF") /\ Done(Ok(negF(fop.a)))

FromDecimalString == Pending("fromDecimalString") /\ Done(fromDecimalString(fop.str))

\* out keeps s, the normalized text the evaluation works on
TryEvalAlgebraic ==
  /\ Pending("tryEvalAlgebraic")
  /\ fop' = [fop EXCEPT !.done = TRUE, !.r = tryEvalAlgebraic(fop.str),
                        !.out = normalizeMathInput(fop.str)]
  /\ UNCHANGED <<q, currentAnswer, call, loader>>

NormalizeMathInput ==
  /\ Pending("normalizeMathInput")
  /\ fop' = [fop EXCEPT !.done = TRUE, !.out = normalizeMathInput(fop.str)]
  /\ UNCHANGED <<q, currentAnswer, call, loader>>

\* tokenize(s): r and out keep what it throws, 'bad char ' + c
Tokenize ==
  /\ Pending("tokenize")
  /\ fop' = [fop EXCEPT !.done = TRUE,
                        !.r = [ok |-> tokenize(fop.str).ok, err |-> tokenize(fop.str).err,
                               frac |-> Frac(0, 0)],
                        !.out = <<tokenize(fop.str).c>>,
                        !.tokens = tokenize(fop.str).tokens]
  /\ UNCHANGED <<q, currentAnswer, call, loader>>

\* /\\(?:d|t)?frac{([^}]+)}{([^}]+)}/.test(s)
fracTest(s) == \E i \in 1..Len(s) : RxFrac(s, i).len > 0

\* one pass of the while loop: s = s.replace(/...frac.../g, '($1)/($2)')
FracPass ==
  /\ Pending("fracLoop")
  /\ fracTest(fop.out)
  /\ fop' = [fop EXCEPT !.out = ReplaceAll(fop.out, [i \in 1..Len(fop.out) |-> RxFrac(fop.out, i)]),
                        !.k = @ + 1]
  /\ UNCHANGED <<q, currentAnswer, call, loader>>

\* the test of the while loop fails
FracLoopExit ==
  /\ Pending("fracLoop")
  /\ ~fracTest(fop.out)
  /\ fop' = [fop EXCEPT !.done = TRUE]
  /\ UNCHANGED <<q, currentAnswer, call, loader>>

NextFrac ==
  \/ Norm \/ AddF \/ SubF \/ MulF \/ DivF \/ PowF \/ NegF
  \/ FromDecimalString \/ TryEvalAlgebraic \/ NormalizeMathInput \/ Tokenize

SpecFrac == InitFrac /\ [][NextFrac]_vars

(***************************************************************************)
(* The while loop of normalizeMathInput that rewrites the fraction macros, *)
(* pass by pass: fop.out is the variable s of the loop and fop.k the       *)
(* number of passes made.                                                  *)
(***************************************************************************)
FracLoopInputs ==
  {[Op("fracLoop", Frac(0, 1), Frac(0, 1), 0, s) EXCEPT !.out = s] :
     s \in FracLoopTexts \cup {f.str : f \in {g \in NestedFractions : g.val.n <= 2 /\ g.val.d <= 2}}}

InitFracLoop ==
  /\ q = SAMPLE_QUESTIONS[1]
  /\ currentAnswer = <<>>
  /\ call = NoCall
  /\ fop \in FracLoopInputs
  /\ loader = Unmounted(TRUE)

NextFracLoop == FracPass \/ FracLoopExit

\* the loop is synchronous: it runs until its test fails
SpecFracLoop == InitFracLoop /\ [][NextFracLoop]_vars /\ WF_vars(NextFracLoop)

(***************************************************************************)
(* Properties                                                              *)
(***************************************************************************)
IsNumeric(question) == question.type = "free" /\ question.answer.typeof = "object"

IsText(question) == question.type = "free" /\ question.answer.typeof = "string"

Checked == call.status # "none"

\* x and y are the same number
NumEq(x, y) == NumLe(x, y) /\ NumLe(y, x)

\* the normalized answer holds a letter, so its expression an identifier
HasIdentifier(v) == \E c \in Letters : Includes(normalizeMathInput(v), c)

\* the maximal runs of characters that are not white space, in order
RECURSIVE WordsFrom(_, _)
WordsFrom(s, i) ==
  IF i > Len(s) THEN <<>>
  ELSE IF s[i] \in WhiteSpace THEN WordsFrom(s, i + 1)
  ELSE <<SubSeq(s, i, SkipNotIn(s, i, WhiteSpace) - 1)>>
       \o WordsFrom(s, SkipNotIn(s, i, WhiteSpace))

Words(s) == WordsFrom(s, 1)

\* C1: checkAnswer never throws: whatever the answer and the expected
\* answer, the call returns a verdict.
C1_GradingNeverThrows == call.status # "threw"

\* answers "a/0", with and without parentheses
ZeroDenominatorTexts ==
  {<<"5", "/", "0">>,
   <<"0", "/", "0">>,
   <<"-", "3", "/", "0">>,
   <<"(", "5", ")", "/", "(", "0", ")">>}

\* C2: an answer "a/0" is graded incorrect against every finite numeric
\* target.
C2_DivisionByZeroIncorrect ==
  (call.status = "returned" /\ IsNumeric(q) /\ isFinite(q.answer.value)
   /\ currentAnswer \in ZeroDenominatorTexts)
    => ~call.correct

\* C3: tryEvalAlgebraic fails with div0, and gives no fraction, for an
\* expression that divides by zero, "a/0" for every integer a included.
C3_DivisionByZeroFails ==
  (fop.op = "tryEvalAlgebraic" /\ fop.done
   /\ ((fop.k = 1 /\ fop.a.d = 0) \/ fop.str \in ZeroDivisorTexts))
    => fop.r = Throw("div0")

\* C4: the fraction that an operation on fractions produces from operands
\* that satisfy the invariant has a denominator > 0 and is fully reduced.
C4_FractionInvariant ==
  (fop.done /\ fop.op \notin {"normalizeMathInput", "tokenize", "fracLoop"} /\ fop.r.ok)
    => IsFraction(fop.r.frac)

\* C5: the fraction built from String(value) is the reduced fraction equal
\* to value, for a negative value too, so that eqF accepts only an answer
\* whose exact value is value.
C5_ExpectedFractionExact ==
  (call.status = "returned" /\ IsNumeric(q) /\ isFinite(q.answer.value) /\ call.a.ok)
    => /\ call.b.ok
       /\ IsFraction(call.b.frac)
       /\ NumEq(toNumberF(call.b.frac), q.answer.value)
       /\ eqF(call.a.frac, call.b.frac) => NumEq(toNumberF(call.a.frac), q.answer.value)

\* C6: normalizeMathInput is idempotent: normalizing its output again gives
\* the output back.
C6_NormalizeIdempotent ==
  (fop.op = "normalizeMathInput" /\ fop.done) => normalizeMathInput(fop.out) = fop.out

\* C7: for integers a and b, b not zero, the text "a/b" evaluates to the
\* fully reduced fraction equal to a/b, with a positive denominator.
C7_QuotientExact ==
  (fop.op = "tryEvalAlgebraic" /\ fop.done /\ fop.k = 1 /\ fop.a.d # 0)
    => /\ fop.r.ok
       /\ IsFraction(fop.r.frac)
       /\ fop.r.frac.n * fop.a.d = fop.a.n * fop.r.frac.d

C7_Witness ==
  /\ fop.op = "tryEvalAlgebraic" /\ fop.done
  /\ fop.str = <<"2", "/", "-", "4">>
  /\ fop.r = Ok(Frac(0 - 1, 2))

C8Sqrt == <<"s", "q", "r", "t", "(", "2", ")">>

C8Pi == <<"p", "i", "/", "6">>

C9Text == <<"(", " ", "\\", "f", "r", "a", "c", "{", "1", "}", "{", "2", "}", " ", ")", "^", "3", " ", "+", " ", "\\", "f", "r", "a", "c", "{", "1", "}", "{", "4", "}">>

\* C9: "( \frac{1}{2} )^3 + \frac{1}{4}" normalizes, tokenizes, parses and
\* evaluates to 3/8, and is correct for 0.375 with tolerance 1e-9 by the
\* equality of the two fractions.
C9_SampleIsThreeEighths ==
  (Checked /\ q = SAMPLE_QUESTIONS[2] /\ currentAnswer = C9Text)
    => /\ tokenize(normalizeMathInput(C9Text)).ok
       /\ parseExpr(tokenize(normalizeMathInput(C9Text)).tokens).ok
       /\ call.a = Ok(Frac(3, 8))
       /\ call.b = Ok(Frac(3, 8))
       /\ call.status = "returned" /\ call.correct /\ ~call.fallback

C9_Witness ==
  /\ q.id = "q2" /\ currentAnswer = C9Text
  /\ call.status = "returned" /\ call.correct /\ eqF(call.a.frac, call.b.frac)

C10Answer == <<" ", "A", "p", "p", "l", "e", " ", " ", " ", "p", "i", "e", " ">>

C10Expected == <<"a", "p", "p", "l", "e", " ", "p", "i", "e">>

\* C10: for a string target the verdict is whether answer and expected text
\* are equal once every run of white space is one space and both ends are
\* trimmed; letter case counts, so " Apple   pie " is incorrect for
\* "apple pie".
C10_StringTarget ==
  (Checked /\ IsText(q))
    => /\ call.status = "returned"
       /\ call.correct = (Words(currentAnswer) = Words(q.answer.str))
       /\ (currentAnswer = C10Answer /\ q.answer.str = C10Expected) => ~call.correct

C10_Witness ==
  /\ IsText(q) /\ q.answer.str = C10Expected /\ currentAnswer = C10Answer
  /\ call.status = "returned" /\ ~call.correct

\* the text that reaches the decimal-comma statement of normalizeMathInput
BeforeDecimalComma(raw) == identifiers(punctuation(NFKC(stripInvisible(Trim(raw)))))

\* s with '.' for every comma strictly between two digits, all else as in s
CommaExpected(s) ==
  [i \in 1..Len(s) |->
     IF s[i] = "," /\ At(s, i - 1) \in Digits /\ At(s, i + 1) \in Digits THEN "." ELSE s[i]]

RECURSIVE GlyphsExpanded(_)
GlyphsExpanded(s) ==
  IF s = <<>> THEN <<>>
  ELSE (IF Head(s) \in DOMAIN VulgarGlyphs
        THEN <<"(", VulgarGlyphs[Head(s)][1], "/", VulgarGlyphs[Head(s)][2], ")">>
        ELSE <<Head(s)>>) \o GlyphsExpanded(Tail(s))

\* C12: normalizeMathInput expands every vulgar-fraction glyph to "(a/b)",
\* so that a glyph next to digits stays grouped in the output.
C12_GlyphsParenthesized ==
  (fop.op = "normalizeMathInput" /\ fop.done /\ fop.str \in GlyphTexts)
    => fop.out = GlyphsExpanded(fop.str)

\* n to the power k, k >= 0
RECURSIVE IntPow(_, _)
IntPow(n, k) == IF k = 0 THEN 1 ELSE n * IntPow(n, k - 1)

\* C13: for a base x that is not zero and k > 0, the exact evaluation of
\* "x^(-k)", "x^-k" and "x^{-k}" succeeds with the reduced fraction 1/(x^k).
C13_NegativeExponent ==
  (fop.op = "tryEvalAlgebraic" /\ fop.done /\ fop.k = 2)
    => /\ fop.r.ok
       /\ IsFraction(fop.r.frac)
       /\ fop.r.frac.n * IntPow(fop.a.n, fop.b.n) = fop.r.frac.d * IntPow(fop.a.d, fop.b.n)

\* s holds a fraction macro
HasFracMacro(s) == \E i \in 1..Len(s) : \E m \in FracMacros : HasAt(s, i, m)

\* C14: a fraction whose numerator or denominator is itself a fraction of
\* integers normalizes to a text without a fraction macro, which evaluates
\* exactly to the nested quotient.
C14_NestedFractions ==
  (fop.op = "tryEvalAlgebraic" /\ fop.done /\ fop.k = 3)
    => /\ ~HasFracMacro(fop.out)
       /\ fop.r.ok
       /\ fop.r.frac.n * fop.a.d = fop.a.n * fop.r.frac.d

\* the characters the lexer has a rule for, by the specification
Lexical == {" ", "."} \cup Digits \cup {"+", "-", "*", "/", "^", "(", ")"} \cup Letters

\* C15: tokenize throws, with the offending character in the message, for
\* every text that holds a character outside space, digits, '.', the five
\* operators, the parentheses and letters; it skips no such character.
C15_TokenizeRejects ==
  (fop.op = "tokenize" /\ fop.done /\ \E i \in 1..Len(fop.str) : fop.str[i] \notin Lexical)
    => /\ ~fop.r.ok
       /\ fop.r.err = "bad char"
       /\ fop.out = <<fop.str[SkipIn(fop.str, 1, Lexical)]>>

\* the number of points in s
Points(s) == Len(SelectSeq(s, LAMBDA c : c = "."))

\* C16: every number token of tokenize holds digits and at most one point,
\* and a text with a run of digits that holds two points or more is never
\* evaluated to a fraction.
C16_SinglePoint ==
  /\ (fop.op = "tokenize" /\ fop.done /\ fop.r.ok)
       => \A i \in 1..Len(fop.tokens) :
            fop.tokens[i].t = "num" => Points(fop.tokens[i].v) <= 1
  /\ (fop.op = "tryEvalAlgebraic" /\ fop.done /\ fop.k = 4) => ~fop.r.ok

(***************************************************************************)
(* MathLive setup: ensureMathlive and the effects that call it             *)
(***************************************************************************)
\* at most MaxLoads evaluations of import('mathlive') in a behaviour, and at
\* most MaxLoads calls from the page's effect not yet settled
MaxLoads == 4

\* ensureMathlive() up to its await, called from the page's effect ("app") or
\* from MathField's ("field"): if (mathliveLoaded) return; else
\* import('mathlive') is evaluated and the call waits for it.
ensureMathlive(l, who) ==
  IF l.mathliveLoaded
  THEN IF who = "app" THEN [l EXCEPT !.appReturns = @ + 1] ELSE l
  ELSE IF who = "app"
  THEN [l EXCEPT !.initiated = @ + 1, !.appLoads = @ + 1]
  ELSE [l EXCEPT !.initiated = @ + 1, !.fieldLoads = @ + 1]

\* useEffect(() => { if (useMathField) { setLoadingMathfield(true);
\*   ensureMathlive().finally(() => setLoadingMathfield(false)); } }, [useMathField])
appEffect(l) ==
  IF l.useMathField THEN ensureMathlive([l EXCEPT !.loadingMathfield = TRUE], "app") ELSE l

\* MathField: useEffect(() => { ... await ensureMathlive(); ... }, [])
fieldEffect(l) == ensureMathlive(l, "field")

\* the effects of a component that mounts: StrictMode runs them twice
appMounts(l) == IF l.strict THEN appEffect(appEffect(l)) ELSE appEffect(l)

fieldMounts(l) == IF l.strict THEN fieldEffect(fieldEffect(l)) ELSE fieldEffect(l)

InitLoad ==
  /\ q = SAMPLE_QUESTIONS[1]
  /\ currentAnswer = <<>>
  /\ call = NoCall
  /\ fop = Idle
  /\ loader \in {Unmounted(strict) : strict \in BOOLEAN}

Loader(l) ==
  /\ loader' = l
  /\ UNCHANGED <<q, currentAnswer, call, fop>>

\* ReactDOM.createRoot(...).render(<React.StrictMode><MathPracticeApp />...)
MountApp ==
  /\ ~loader.mounted
  /\ Loader(appMounts([loader EXCEPT !.mounted = TRUE]))

\* the checkbox: onChange={(e) => setUseMathField(e.target.checked)}, and the
\* page's effect, which depends on useMathField
ToggleMathField ==
  /\ loader.mounted
  /\ loader.initiated < MaxLoads
  /\ loader.appLoads + loader.appReturns < MaxLoads
  /\ Loader(appEffect([loader EXCEPT !.useMathField = ~@]))

\* {useMathField && !loadingMathfield ? (<MathField ... />) : ...}
MountMathField ==
  /\ loader.mounted /\ ~loader.fieldMounted
  /\ loader.useMathField /\ ~loader.loadingMathfield
  /\ loader.initiated + 2 <= MaxLoads
  /\ Loader(fieldMounts([loader EXCEPT !.fieldMounted = TRUE]))

UnmountMathField ==
  /\ loader.fieldMounted
  /\ ~(loader.useMathField /\ ~loader.loadingMathfield)
  /\ Loader([loader EXCEPT !.fieldMounted = FALSE])

\* await import('mathlive') of a call from the page's effect resolves:
\* mathliveLoaded = true, then finally(() => setLoadingMathfield(false))
AppImportResolves ==
  /\ loader.appLoads > 0
  /\ Loader([loader EXCEPT !.appLoads = @ - 1, !.mathliveLoaded = TRUE,
                           !.loadingMathfield = FALSE])

\* it is rejected: catch (e) { console.warn(...) }, then the finally()
AppImportRejects ==
  /\ loader.appLoads > 0
  /\ Loader([loader EXCEPT !.appLoads = @ - 1, !.failed = TRUE, !.loadingMathfield = FALSE])

\* a call from the page's effect that returned at once: its finally()
AppReturns ==
  /\ loader.appReturns > 0
  /\ Loader([loader EXCEPT !.appReturns = @ - 1, !.loadingMathfield = FALSE])

FieldImportResolves ==
  /\ loader.fieldLoads > 0
  /\ Loader([loader EXCEPT !.fieldLoads = @ - 1, !.mathliveLoaded = TRUE])

FieldImportRejects ==
  /\ loader.fieldLoads > 0
  /\ Loader([loader EXCEPT !.fieldLoads = @ - 1, !.failed = TRUE])

NextLoad ==
  \/ MountApp \/ ToggleMathField \/ MountMathField \/ UnmountMathField
  \/ AppImportResolves \/ AppImportRejects \/ AppReturns
  \/ FieldImportResolves \/ FieldImportRejects

SpecLoad == InitLoad /\ [][NextLoad]_vars

\* C17: the widget is loaded at most once: calls of ensureMathlive made
\* while a load is in flight join that load, so that import('mathlive') is
\* evaluated at most once as long as no import has failed.
C17_LoadedAtMostOnce == ~loader.failed => loader.initiated <= 1

\* the number of places of s where \frac, \dfrac or \tfrac stands
MacroCount(s) ==
  Cardinality({i \in 1..Len(s) : \E m \in FracMacros : HasAt(s, i, m)})

\* C18: the loop of normalizeMathInput that rewrites the fraction macros
\* terminates: every pass lowers the number of fraction macros in s, also
\* when a captured group holds a macro, and the loop reaches its exit, with
\* the text that normalizeMathInput goes on with.
C18_FracLoopTerminates ==
  /\ [][(fop.op = "fracLoop" /\ fop'.k = fop.k + 1)
          => MacroCount(fop'.out) < MacroCount(fop.out)]_vars
  /\ [](fop.op = "fracLoop" => fop.k + MacroCount(fop.out) <= MacroCount(fop.str))
  /\ [](fop.op = "fracLoop" /\ fop.done => fop.out = fracLoop(fop.str))
  /\ (fop.op = "fracLoop") ~> (fop.op = "fracLoop" /\ fop.done)

C18_Witness ==
  /\ fop.op = "fracLoop" /\ fop.done /\ fop.k = 2
  /\ fop.str = <<"\\", "f", "r", "a", "c", "{", "\\", "f", "r", "a", "c", "{", "1", "}", "{", "2", "}", "}", "{", "3", "}">>
  /\ fop.out = <<"(", "(", "1", ")", "/", "(", "2", ")", ")", "/", "(", "3", ")">>

=============================================================================

